---- MODULE Spec2Model ----
(***************************************************************************)
(* EmoDeskBot: the voice pipeline of src/ai_desk_bot.py (capture thread,   *)
(* activation gate, chat pipeline with streamed directive extraction,      *)
(* display client, speech output, main loop).                              *)
(*                                                                         *)
(* Text is a sequence of one-character strings; indices into text are      *)
(* Python's (0-based, -1 for "not found"), so that the slices and the      *)
(* comparisons of the source translate literally.                          *)
(***************************************************************************)
EXTENDS Integers, Sequences, FiniteSets, TLC

VARIABLES
    args,                  \* parsed command line: always_listen, mute, stream, mode
    continue_listening,    \* the global stop flag of the capture thread
    audio_queue,           \* queue.Queue of captured chunks (chunk ids)
    capPc,                 \* position of continuous_listen_worker
    captured,              \* number of chunks the microphone has delivered so far
    mainPc,                \* position of main
    audio,                 \* main's local `audio`: the chunk taken from the queue
    user_input,            \* main's local `user_input`
    ai_response,           \* main's local `ai_response`
    conversation_history,  \* the global transcript
    device,                \* commands requested of the ESP32 in the current cycle / call
    events,                \* what the current main-loop cycle did, in order
    transcribed,           \* chunks handed to process_audio, in order
    frames,                \* chat_with_ai_stream: lines of the response not yet read
    full_response,         \* chat_with_ai_stream: local full_response
    buffer,                \* chat_with_ai_stream: local buffer
    display_cmd,           \* chat_with_ai_stream: local display_cmd
    chatPc,                \* position inside a chat call
    chatResult,            \* value returned by the chat call
    gateIn,                \* activation gate under test: its input
    gateOut,               \* activation gate under test: its outcome
    noise,                 \* unusable lines the chat service may still send
    status,                \* response.status_code of the chat call, "aborted" once
                           \* the connection has failed
    espCall,               \* display client under test: the call and its outcome
    ttsCall,               \* speak_text under test: the call and what it attempted
    smile,                 \* smile detector: its globals, the clock, the device's face
    late_puts              \* history: chunks enqueued since continue_listening was cleared

vars == <<args, continue_listening, audio_queue, capPc, captured, mainPc, audio,
          user_input, ai_response, conversation_history, device, events,
          transcribed, frames, full_response, buffer, display_cmd, chatPc,
          chatResult, gateIn, gateOut, noise, status, espCall, ttsCall,
          smile, late_puts>>

progVars == <<args, continue_listening, audio_queue, capPc, captured, mainPc,
              audio, user_input, ai_response, events, transcribed>>
streamVars == <<frames, full_response, buffer, display_cmd, noise, status>>
chatVars == <<conversation_history, device, frames, full_response, buffer,
              display_cmd, noise, status, chatPc, chatResult>>
gateVars == <<gateIn, gateOut>>

-----------------------------------------------------------------------------
(* Python strings *)

\* Python's None (no text is equal to it).
None == <<"<None>">>

\* Truthiness of an optional string: `if text:`.
Truthy(s) == s # None /\ s # <<>>

\* s[a:b] for 0 <= a, b <= len(s)
Slice(s, a, b) == IF b <= a THEN <<>> ELSE SubSeq(s, a + 1, b)

\* p occurs in s at 0-based index i
OccursAt(s, p, i) ==
    /\ i >= 0
    /\ i + Len(p) <= Len(s)
    /\ \A k \in 1..Len(p) : s[i + k] = p[k]

\* s.find(p, start): the lowest index >= start where p occurs, else -1
Find(s, p, start) ==
    LET hits == {i \in start..(Len(s) - Len(p)) : OccursAt(s, p, i)}
    IN  IF hits = {} THEN -1 ELSE CHOOSE i \in hits : \A j \in hits : i <= j

\* `p in s`
Contains(s, p) == Find(s, p, 0) # -1

\* s.startswith(p)
StartsWith(s, p) == OccursAt(s, p, 0)

\* s.replace(p, ""): every non-overlapping occurrence, left to right
RECURSIVE ReplaceAll(_, _)
ReplaceAll(s, p) ==
    LET i == Find(s, p, 0)
    IN  IF i = -1 THEN s
        ELSE Slice(s, 0, i) \o ReplaceAll(Slice(s, i + Len(p), Len(s)), p)

Whitespace == {" "}

\* s.strip()
RECURSIVE LStrip(_)
LStrip(s) == IF s # <<>> /\ Head(s) \in Whitespace THEN LStrip(Tail(s)) ELSE s

RECURSIVE RStrip(_)
RStrip(s) ==
    IF s # <<>> /\ s[Len(s)] \in Whitespace THEN RStrip(Slice(s, 0, Len(s) - 1)) ELSE s

Strip(s) == RStrip(LStrip(s))

\* s.lower(), on the ASCII letters
LowerChar(c) ==
    CASE c = "A" -> "a" [] c = "B" -> "b" [] c = "C" -> "c" [] c = "D" -> "d"
      [] c = "E" -> "e" [] c = "F" -> "f" [] c = "G" -> "g" [] c = "H" -> "h"
      [] c = "I" -> "i" [] c = "J" -> "j" [] c = "K" -> "k" [] c = "L" -> "l"
      [] c = "M" -> "m" [] c = "N" -> "n" [] c = "O" -> "o" [] c = "P" -> "p"
      [] c = "Q" -> "q" [] c = "R" -> "r" [] c = "S" -> "s" [] c = "T" -> "t"
      [] c = "U" -> "u" [] c = "V" -> "v" [] c = "W" -> "w" [] c = "X" -> "x"
      [] c = "Y" -> "y" [] c = "Z" -> "z"
      [] OTHER -> c
Lower(s) == [k \in 1..Len(s) |-> LowerChar(s[k])]

\* the concatenation of a sequence of texts
RECURSIVE Concat(_)
Concat(ss) == IF ss = <<>> THEN <<>> ELSE Head(ss) \o Concat(Tail(ss))

-----------------------------------------------------------------------------
(* Literals of the source *)

activation_phrases ==
    << <<"h","e","y"," ","b","o","t">>,
       <<"h","e","y"," ","d","e","s","k"," ","b","o","t">>,
       <<"e","m","o">>,
       <<"e","m","o","d","e","s","k">>,
       <<"h","i"," ","b","o","t">>,
       <<"h","e","l","l","o"," ","b","o","t">> >>

ExitPhrases == { <<"q","u","i","t">>, <<"e","x","i","t">>, <<"b","y","e">> }

\* the fixed reply of a failed chat call (lines 527, 601, 626, 642)
Apology ==
    <<"S","o","r","r","y",","," ","I"," ","e","n","c","o","u","n","t","e","r","e","d",
      " ","a","n"," ","e","r","r","o","r"," ","w","h","i","l","e"," ","p","r","o","c",
      "e","s","s","i","n","g"," ","y","o","u","r"," ","r","e","q","u","e","s","t",".">>
ImListening == <<"I","'","m"," ","l","i","s","t","e","n","i","n","g">>
Goodbye ==
    <<"G","o","o","d","b","y","e","!"," ","H","a","v","e"," ","a"," ","g","r","e","a",
      "t"," ","d","a","y","!">>
Welcome ==
    <<"W","e","l","c","o","m","e"," ","t","o"," ","t","h","e"," ","A","I"," ","D","e",
      "s","k"," ","B","o","t","!"," ","H","o","w"," ","c","a","n"," ","I"," ","h","e",
      "l","p"," ","y","o","u"," ","t","o","d","a","y","?">>
\* the system entry of the transcript, by its first words
SystemPrompt == <<"Y","o","u"," ","a","r","e"," ","E","m","o">>

Marker == <<"[","D","I","S","P","L","A","Y",":">>
Close == <<"]">>
Happy == <<"h","a","p","p","y">>
Sad == <<"s","a","d">>
Neutral == <<"n","e","u","t","r","a","l">>
Angry == <<"a","n","g","r","y">>
Grinning == <<"g","r","i","n","n","i","n","g">>
Scared == <<"s","c","a","r","e","d">>
TimeCmd == <<"t","i","m","e">>
WeatherCmd == <<"w","e","a","t","h","e","r">>
TextPrefix == <<"t","e","x","t",":">>
\* f"text:Time: {current_time}" with the clock reading 03:45 PM
TimeText ==
    <<"t","e","x","t",":","T","i","m","e",":"," ","0","3",":","4","5"," ","P","M">>
\* f"text:{weather_text}" of the placeholder weather (the degree sign as one character)
WeatherText == <<"t","e","x","t",":","S","u","n","n","y",","," ","7","2","deg","F">>
MoodTags == {Happy, Sad, Neutral, Angry, Grinning, Scared}

-----------------------------------------------------------------------------
(* Display client: send_to_esp32 *)

\* what requests.get(url, timeout=2) can do
HttpOutcomes == {"200", "404", "500", "timeout", "connection_error"}
IsException(outcome) == outcome \in {"timeout", "connection_error"}

\* `except Exception as e` of send_to_esp32: the exceptions it handles
EspHandles(outcome) == IsException(outcome)

\* One call of send_to_esp32(command): the requests it makes, whether it
\* returns, the value it returns, and whether an exception leaves it.
EspRetries(command, outcome) ==
    IF IsException(outcome)
    THEN [requests |-> <<command, command>>, returned |-> TRUE, value |-> FALSE,
          raised |-> FALSE]
    ELSE [requests |-> <<command>>, returned |-> TRUE, value |-> TRUE, raised |-> FALSE]
send_to_esp32(command, outcome) ==
    IF ~IsException(outcome)
    THEN [requests |-> <<command>>, returned |-> TRUE, value |-> TRUE, raised |-> FALSE]
    ELSE IF EspHandles(outcome)
    THEN [requests |-> <<command>>, returned |-> TRUE, value |-> FALSE, raised |-> FALSE]
    ELSE [requests |-> <<command>>, returned |-> FALSE, value |-> FALSE, raised |-> TRUE]

\* the device log entries of the commands `cmds`, sent from call site `site`
Sent(cmds, site) == [k \in 1..Len(cmds) |-> [cmd |-> cmds[k], by |-> site]]

-----------------------------------------------------------------------------
(* Display directives *)

DisplayDispatchEchoes(command) ==
    IF command = TimeCmd THEN <<TimeText>>
    ELSE IF command = WeatherCmd THEN <<WeatherText>>
    ELSE <<command>>

\* the if/elif chain of process_display_commands: the commands sent for a tag
DisplayDispatch(command) ==
    IF command \in MoodTags THEN <<command>>
    ELSE IF command = TimeCmd THEN <<TimeText>>
    ELSE IF command = WeatherCmd THEN <<WeatherText>>
    ELSE IF StartsWith(command, TextPrefix) THEN <<command>>
    ELSE <<>>

ProcessLastDirective(response) ==
    IF Contains(response, Marker)
    THEN LET start_idx == CHOOSE i \in 0..Len(response) :
                              /\ OccursAt(response, Marker, i)
                              /\ \A h \in (i + 1)..Len(response) :
                                     ~OccursAt(response, Marker, h)
             end_idx == Find(response, Close, start_idx)
         IN  IF end_idx > start_idx
             THEN [sent |-> DisplayDispatch(Lower(Slice(response, start_idx + 9, end_idx))),
                   text |-> Slice(response, 0, start_idx)
                              \o Slice(response, end_idx + 1, Len(response))]
             ELSE [sent |-> <<>>, text |-> response]
    ELSE [sent |-> <<>>, text |-> response]

\* process_display_commands(response): the commands it sends and the text it returns
process_display_commands(response) ==
    IF Contains(response, Marker)
    THEN LET start_idx == Find(response, Marker, 0)
             end_idx == Find(response, Close, start_idx)
         IN  IF end_idx > start_idx
             THEN [sent |-> DisplayDispatch(Lower(Slice(response, start_idx + 9, end_idx))),
                   text |-> Slice(response, 0, start_idx)
                              \o Slice(response, end_idx + 1, Len(response))]
             ELSE [sent |-> <<>>, text |-> response]
    ELSE [sent |-> <<>>, text |-> response]

\* the if/elif chain inside chat_with_ai_stream
StreamDispatch(cmd) ==
    IF cmd \in MoodTags THEN <<cmd>>
    ELSE IF cmd = TimeCmd THEN <<TimeText>>
    ELSE IF cmd = WeatherCmd THEN <<WeatherText>>
    ELSE IF StartsWith(cmd, TextPrefix) THEN <<cmd>>
    ELSE <<>>

\* One content fragment of the stream (lines 546-580): the new locals and the
\* commands sent while consuming it.
StreamContentAtEndOnly(full, buf, cmd, delta_content) ==
    [full_response |-> full \o delta_content, buffer |-> buf \o delta_content,
     display_cmd |-> cmd, sent |-> <<>>]
StreamContent(full, buf, cmd, delta_content) ==
    LET b == buf \o delta_content
        start_idx == Find(b, Marker, 0)
        end_idx == Find(b, Close, start_idx)
    IN  IF Contains(b, Marker) /\ Contains(b, Close) /\ ~Truthy(cmd)
           /\ end_idx > start_idx
        THEN [full_response |-> full \o delta_content, buffer |-> b,
              display_cmd |-> Lower(Slice(b, start_idx + 9, end_idx)),
              sent |-> StreamDispatch(Lower(Slice(b, start_idx + 9, end_idx)))]
        ELSE [full_response |-> full \o delta_content, buffer |-> b,
              display_cmd |-> cmd, sent |-> <<>>]

-----------------------------------------------------------------------------
(* Activation gate *)

\* the for loop over activation_phrases (lines 461-467): first phrase in list
\* order that occurs in the text wins
FirstPhrase(text) ==
    LET hits == {k \in 1..Len(activation_phrases) : Contains(text, activation_phrases[k])}
    IN  IF hits = {} THEN 0 ELSE CHOOSE k \in hits : \A j \in hits : k <= j

ActivationLoopNoStrip(text) ==
    IF FirstPhrase(text) = 0
    THEN [activated |-> FALSE, text |-> text]
    ELSE [activated |-> TRUE,
          text |-> ReplaceAll(text, activation_phrases[FirstPhrase(text)])]
ActivationLoop(text) ==
    IF FirstPhrase(text) = 0
    THEN [activated |-> FALSE, text |-> text]
    ELSE [activated |-> TRUE,
          text |-> Strip(ReplaceAll(text, activation_phrases[FirstPhrase(text)]))]

\* the decision of process_audio after transcription (lines 460-484)
GateIgnoresWhenNotActivated(text, always_listen) ==
    LET r == ActivationLoop(text)
    IN  IF r.activated
        THEN IF Truthy(r.text) THEN [kind |-> "command", text |-> r.text]
             ELSE [kind |-> "ack", text |-> r.text]
        ELSE [kind |-> "ignored", text |-> r.text]
GatePassesUnactivated(text, always_listen) ==
    LET r == ActivationLoop(text)
    IN  IF Truthy(r.text) THEN [kind |-> "command", text |-> r.text]
        ELSE [kind |-> "ack", text |-> r.text]
Gate(text, always_listen) ==
    LET r == ActivationLoop(text)
    IN  IF r.activated \/ always_listen
        THEN IF Truthy(r.text) THEN [kind |-> "command", text |-> r.text]
             ELSE [kind |-> "ack", text |-> r.text]
        ELSE [kind |-> "ignored", text |-> r.text]

\* the decision of process_audio_chunk_with_openai (lines 405-434)
GateOpenAI(transcribed_text, always_listen) ==
    IF Truthy(transcribed_text)
    THEN LET hit == FirstPhrase(transcribed_text)
             stripped == IF hit = 0 THEN transcribed_text
                         ELSE Strip(ReplaceAll(transcribed_text, activation_phrases[hit]))
         IN  IF hit # 0 \/ always_listen
             THEN IF Truthy(stripped) THEN [kind |-> "command", text |-> stripped]
                  ELSE [kind |-> "ack", text |-> stripped]
             ELSE [kind |-> "ignored", text |-> stripped]
    ELSE [kind |-> "ignored", text |-> transcribed_text]

-----------------------------------------------------------------------------
(* Inputs *)

\* at most this many content fragments per streamed reply
MaxFragments == 3
\* at most this many unusable lines per streamed reply
MaxNoise == 1

\* the ways of cutting s into at most n non-empty fragments
RECURSIVE Splits(_, _)
Splits(s, n) ==
    IF s = <<>> THEN {<<>>}
    ELSE IF n <= 1 THEN {<<s>>}
    ELSE {<<s>>} \cup
         UNION {{<<Slice(s, 0, i)>> \o rest : rest \in Splits(Slice(s, i, Len(s)), n - 1)}
                : i \in 1..(Len(s) - 1)}

\* a character the console's encoding lacks (an emoji on a cp1252 console):
\* print of a text that holds it raises UnicodeEncodeError
Unprintable == "U+1F60A"
Printable(text) == \A k \in 1..Len(text) : text[k] # Unprintable

HiBang == <<"H","i","!"," ">>
HiHappy == Concat(<<HiBang, Marker, Happy, Close>>)

\* replies of the chat service
Replies ==
    { <<>>,
      HiBang,
      HiHappy,
      Concat(<<Marker, Sad, Close, HiBang>>),
      Concat(<<HiBang, Marker, <<"H","A","P","P","Y">>, Close, <<"!">>>>),
      Concat(<<Marker, Happy, Close, Marker, Sad, Close>>),
      Concat(<<Close, Marker, Angry, Close>>),
      Concat(<<HiBang, Marker, Happy>>),
      Concat(<<Marker, Close, HiBang>>),
      Concat(<<Marker, <<"d","a","n","c","e">>, Close>>),
      Concat(<<Marker, TimeCmd, Close>>),
      Concat(<<Marker, WeatherCmd, Close>>),
      Concat(<<Marker, TextPrefix, <<"h","i">>, Close>>),
      Concat(<<<<Unprintable>>, Marker, Happy, Close>>) }

\* every reply in every fragmentation
Streams == UNION {Splits(r, MaxFragments) : r \in Replies}

\* what requests.post can answer
ChatStatuses == {"200", "429", "500"}

\* lines of the stream that add nothing: keep-alive blank lines, lines without
\* the data: prefix, frames whose JSON does not parse, frames without content
SkippedLines == {"blank", "nondata", "malformed", "nocontent"}

UserEntry(text) == [role |-> "user", content |-> text]
AssistantEntry(text) == [role |-> "assistant", content |-> text]
SystemEntry == [role |-> "system", content |-> SystemPrompt]

-----------------------------------------------------------------------------
(* Chat pipeline: chat_with_ai_stream *)

\* what a chat call leaves alone
ChatFrame ==
    UNCHANGED <<args, continue_listening, audio_queue, capPc, captured, mainPc, audio,
                user_input, ai_response, events, transcribed, gateIn, gateOut, espCall,
                ttsCall, smile, late_puts>>

\* lines 498-520: the user entry, the "thinking" face, the locals
ChatStreamSend ==
    /\ chatPc = "call"
    /\ ChatFrame
    /\ args.stream
    /\ conversation_history' = Append(conversation_history, UserEntry(user_input))
    /\ device' = device \o Sent(<<Neutral>>, "thinking")
    /\ full_response' = <<>>
    /\ buffer' = <<>>
    /\ display_cmd' = None
    /\ chatPc' = "post"
    /\ UNCHANGED <<frames, noise, status, chatResult>>

ChatStreamStatusAppends(S) ==
    /\ chatPc = "post"
    /\ ChatFrame
    /\ args.stream
    /\ \E st \in ChatStatuses :
         /\ status' = st
         /\ IF st = "200"
            THEN /\ frames' \in S
                 /\ noise' = MaxNoise
                 /\ chatPc' = "iter"
                 /\ UNCHANGED <<chatResult, conversation_history>>
            ELSE /\ chatResult' = Apology
                 /\ conversation_history' =
                        Append(conversation_history, AssistantEntry(Apology))
                 /\ chatPc' = "returned"
                 /\ UNCHANGED <<frames, noise>>
    /\ UNCHANGED <<device, full_response, buffer, display_cmd>>

\* lines 523-527: the response arrives; anything but 200 ends the call
ChatStreamStatus(S) ==
    /\ chatPc = "post"
    /\ ChatFrame
    /\ args.stream
    /\ \E st \in ChatStatuses :
         /\ status' = st
         /\ IF st = "200"
            THEN /\ frames' \in S
                 /\ noise' = MaxNoise
                 /\ chatPc' = "iter"
                 /\ UNCHANGED chatResult
            ELSE /\ chatResult' = Apology
                 /\ chatPc' = "returned"
                 /\ UNCHANGED <<frames, noise>>
    /\ UNCHANGED <<conversation_history, device, full_response, buffer, display_cmd>>

\* lines 540-583: a data frame with content
ChatStreamContent ==
    /\ chatPc = "iter"
    /\ ChatFrame
    /\ frames # <<>>
    /\ Printable(Head(frames))
    /\ LET r == StreamContent(full_response, buffer, display_cmd, Head(frames))
       IN  /\ full_response' = r.full_response
           /\ buffer' = r.buffer
           /\ display_cmd' = r.display_cmd
           /\ device' = device \o Sent(r.sent, "stream")
    /\ frames' = Tail(frames)
    /\ UNCHANGED <<conversation_history, noise, status, chatPc, chatResult>>

\* lines 546-583, 599-601: a data frame whose content the console cannot
\* print; the fragment is added and its directive dispatched (lines 547-580)
\* before print(delta_content) raises at line 583, and the handler of lines
\* 599-601 returns the apology
ChatStreamPrintRaises ==
    /\ chatPc = "iter"
    /\ ChatFrame
    /\ frames # <<>>
    /\ ~Printable(Head(frames))
    /\ LET r == StreamContent(full_response, buffer, display_cmd, Head(frames))
       IN  /\ full_response' = r.full_response
           /\ buffer' = r.buffer
           /\ display_cmd' = r.display_cmd
           /\ device' = device \o Sent(r.sent, "stream")
    /\ frames' = Tail(frames)
    /\ chatResult' = Apology
    /\ chatPc' = "returned"
    /\ UNCHANGED <<conversation_history, noise, status>>

\* lines 531, 536, 546, 585-587: a line that adds nothing
ChatStreamSkip ==
    /\ chatPc = "iter"
    /\ ChatFrame
    /\ noise > 0
    /\ \E kind \in SkippedLines : noise' = noise - 1
    /\ UNCHANGED <<conversation_history, device, frames, full_response, buffer,
                   display_cmd, status, chatPc, chatResult>>

ChatStreamDoneDrains ==
    /\ chatPc = "iter"
    /\ ChatFrame
    /\ chatPc' = "finish"
    /\ full_response' = full_response \o Concat(frames)
    /\ frames' = <<>>
    /\ UNCHANGED <<conversation_history, device, buffer, display_cmd, noise, status,
                   chatResult>>

\* lines 537-538: the sentinel frame, whatever follows it
ChatStreamDone ==
    /\ chatPc = "iter"
    /\ ChatFrame
    /\ chatPc' = "finish"
    /\ UNCHANGED <<conversation_history, device, frames, full_response, buffer,
                   display_cmd, noise, status, chatResult>>

\* line 530: the response ends without a sentinel
ChatStreamEnd ==
    /\ chatPc = "iter"
    /\ ChatFrame
    /\ frames = <<>>
    /\ chatPc' = "finish"
    /\ UNCHANGED <<conversation_history, device, frames, full_response, buffer,
                   display_cmd, noise, status, chatResult>>

\* lines 599-601: the connection fails while posting or while reading the stream
ChatStreamRaise ==
    /\ chatPc \in {"post", "iter"}
    /\ ChatFrame
    /\ args.stream
    /\ status' = "aborted"
    /\ chatResult' = Apology
    /\ chatPc' = "returned"
    /\ UNCHANGED <<conversation_history, device, frames, full_response, buffer,
                   display_cmd, noise>>

\* lines 533, 542-546: a line the code cannot take apart: bytes that are not
\* UTF-8 (line.decode, outside the inner try), or a data frame whose JSON
\* parses but has no element in "choices" or is not an object (IndexError,
\* AttributeError at line 546).  Only json.JSONDecodeError is handled inside
\* the loop (line 585), so the exception reaches the handler of lines 599-601.
ChatStreamUnusable ==
    /\ chatPc = "iter"
    /\ ChatFrame
    /\ noise > 0
    /\ noise' = noise - 1
    /\ chatResult' = Apology
    /\ chatPc' = "returned"
    /\ UNCHANGED <<conversation_history, device, frames, full_response, buffer,
                   display_cmd, status>>

\* lines 589-597: the assistant entry, the final directive processing, the result
ChatStreamFinish ==
    /\ chatPc = "finish"
    /\ ChatFrame
    /\ conversation_history' = Append(conversation_history, AssistantEntry(full_response))
    /\ LET p == process_display_commands(full_response)
       IN  /\ device' = device \o Sent(p.sent, "final")
           /\ chatResult' = p.text
    /\ chatPc' = "returned"
    /\ UNCHANGED <<frames, full_response, buffer, display_cmd, noise, status>>

-----------------------------------------------------------------------------
(* Chat pipeline: chat_with_ai *)

ChatSendResets ==
    /\ chatPc = "call"
    /\ ChatFrame
    /\ ~args.stream
    /\ conversation_history' = <<SystemEntry, UserEntry(user_input)>>
    /\ chatPc' = "post"
    /\ UNCHANGED <<device, frames, full_response, buffer, display_cmd, noise, status,
                   chatResult>>

ChatSendOmitsUser ==
    /\ chatPc = "call"
    /\ ChatFrame
    /\ ~args.stream
    /\ chatPc' = "post"
    /\ UNCHANGED <<conversation_history, device, frames, full_response, buffer,
                   display_cmd, noise, status, chatResult>>

\* line 606: the user entry
ChatSend ==
    /\ chatPc = "call"
    /\ ChatFrame
    /\ ~args.stream
    /\ conversation_history' = Append(conversation_history, UserEntry(user_input))
    /\ chatPc' = "post"
    /\ UNCHANGED <<device, frames, full_response, buffer, display_cmd, noise, status,
                   chatResult>>

\* lines 621-638: the response
ChatReceive(R) ==
    /\ chatPc = "post"
    /\ ChatFrame
    /\ ~args.stream
    /\ \E st \in ChatStatuses :
         /\ status' = st
         /\ IF st = "200"
            THEN \E ai \in R :
                   /\ conversation_history' =
                          Append(conversation_history, AssistantEntry(ai))
                   /\ device' = device \o Sent(process_display_commands(ai).sent, "final")
                   /\ chatResult' = process_display_commands(ai).text
            ELSE /\ chatResult' = Apology
                 /\ UNCHANGED <<conversation_history, device>>
    /\ chatPc' = "returned"
    /\ UNCHANGED <<frames, full_response, buffer, display_cmd, noise>>

\* process_display_commands reaches its print of an unknown tag (line 297)
PrintsUnknownTag(response) ==
    /\ Contains(response, Marker)
    /\ Find(response, Close, Find(response, Marker, 0)) > Find(response, Marker, 0)
    /\ DisplayDispatch(Lower(Slice(response, Find(response, Marker, 0) + 9,
                                   Find(response, Close, Find(response, Marker, 0)))))
          = <<>>

\* lines 633-636, 297, 640-642: the reply names a tag that is not known and
\* that the console cannot print (a character its encoding lacks); the print
\* of line 297 raises inside process_display_commands, after the assistant
\* entry was appended at line 633, and the handler returns the apology
ChatReceivePrintRaises(R) ==
    /\ chatPc = "post"
    /\ ChatFrame
    /\ ~args.stream
    /\ status' = "200"
    /\ \E ai \in R :
         /\ PrintsUnknownTag(ai)
         /\ conversation_history' = Append(conversation_history, AssistantEntry(ai))
    /\ chatResult' = Apology
    /\ chatPc' = "returned"
    /\ UNCHANGED <<device, frames, full_response, buffer, display_cmd, noise>>

\* lines 640-642: an exception while posting or while reading the answer
ChatRaise ==
    /\ chatPc = "post"
    /\ ChatFrame
    /\ ~args.stream
    /\ chatResult' = Apology
    /\ chatPc' = "returned"
    /\ UNCHANGED <<conversation_history, device, frames, full_response, buffer,
                   display_cmd, noise, status>>

-----------------------------------------------------------------------------
(* Inputs of the whole program *)

\* the microphone delivers at most this many utterances to the capture loop
MaxChunks == 2

HeyBot == activation_phrases[1]
Hi == <<"h","i">>
Quit == <<"q","u","i","t">>

\* what the recogniser makes of an utterance, lower-cased
Heard == {HeyBot, HeyBot \o <<" ">> \o Hi, Hi, Quit}
\* what listen_for_speech returns for an utterance (not lower-cased)
FollowUps == {Hi, <<"Q","u","i","t">>}
\* what the user types in text mode
Typed == {Hi, Quit, <<>>}

\* replies of the chat service to the main loop, as streamed and as a whole
MainStreams == {<<HiHappy>>, <<HiBang, Concat(<<Marker, Happy, Close>>)>>, <<HiBang>>}
MainReplies == {HiHappy, HiBang, Concat(<<Marker, <<"d","a","n","c","e">>, Close>>)}

Event(what, text) == [what |-> what, text |-> text]
\* speak_text(text, ...) unless muted
SpeakUnlessMuted(text) == IF args.mute THEN <<>> ELSE <<Event("speak", text)>>

-----------------------------------------------------------------------------
(* Capture thread: continuous_listen_worker *)

\* what the capture thread leaves alone
CapFrame ==
    /\ UNCHANGED <<args, mainPc, audio, user_input, ai_response, events, transcribed,
                   gateIn, gateOut, espCall, ttsCall, smile>>
    /\ UNCHANGED chatVars

\* lines 341-343: calibration, outside the loop's try
CapCalibrate ==
    /\ capPc = "calibrate"
    /\ CapFrame
    /\ \/ capPc' = "test"
       \/ capPc' = "dead"          \* the microphone cannot be opened: the thread dies
    /\ UNCHANGED <<continue_listening, audio_queue, captured, late_puts>>

CapTestIgnoresFlag ==
    /\ capPc = "test"
    /\ CapFrame
    /\ capPc' = "listen"
    /\ UNCHANGED <<continue_listening, audio_queue, captured, late_puts>>

\* line 345: while continue_listening
CapTest ==
    /\ capPc = "test"
    /\ CapFrame
    /\ capPc' = IF continue_listening THEN "listen" ELSE "done"
    /\ UNCHANGED <<continue_listening, audio_queue, captured, late_puts>>

\* lines 347-348: the capture returns a chunk
CapListen ==
    /\ capPc = "listen"
    /\ CapFrame
    /\ captured < MaxChunks
    /\ captured' = captured + 1
    /\ capPc' = "put"
    /\ UNCHANGED <<continue_listening, audio_queue, late_puts>>

\* lines 350-351: the capture fails
CapError ==
    /\ capPc = "listen"
    /\ CapFrame
    /\ capPc' = "sleep"
    /\ UNCHANGED <<continue_listening, audio_queue, captured, late_puts>>

CapPutSkipsTest ==
    /\ capPc = "put"
    /\ CapFrame
    /\ audio_queue' = Append(audio_queue, captured)
    /\ late_puts' = IF continue_listening THEN late_puts ELSE late_puts + 1
    /\ capPc' = "listen"
    /\ UNCHANGED <<continue_listening, captured>>

\* line 349: audio_queue.put(audio); the loop then goes back to its test
CapPut ==
    /\ capPc = "put"
    /\ CapFrame
    /\ audio_queue' = Append(audio_queue, captured)
    /\ late_puts' = IF continue_listening THEN late_puts ELSE late_puts + 1
    /\ capPc' = "test"
    /\ UNCHANGED <<continue_listening, captured>>

\* line 352: time.sleep(1)
CapSleep ==
    /\ capPc = "sleep"
    /\ CapFrame
    /\ capPc' = "test"
    /\ UNCHANGED <<continue_listening, audio_queue, captured, late_puts>>

-----------------------------------------------------------------------------
(* listen_for_speech *)

SpeechError ==
    <<"t","e","x","t",":","S","p","e","e","c","h"," ","e","r","r","o","r">>

\* What one call of listen_for_speech does (lines 304-333): the commands it
\* sends and the text it returns, for each way the capture can end.
ListenOutcomes ==
    {"heard", "wait_timeout", "unknown_value", "listen_error", "recognize_error",
     "no_microphone"}
listen_for_speech(outcome, text) ==
    CASE outcome = "heard" ->
             [sent |-> <<Neutral, Neutral>>, text |-> text]
      [] outcome = "wait_timeout" ->
             [sent |-> <<Neutral, Neutral>>, text |-> None]
      [] outcome = "unknown_value" ->
             [sent |-> <<Neutral, Neutral>>, text |-> None]
      [] outcome = "listen_error" ->
             [sent |-> <<Neutral, SpeechError>>, text |-> None]
      [] outcome = "recognize_error" ->
             [sent |-> <<Neutral, Neutral, SpeechError>>, text |-> None]
      [] outcome = "no_microphone" ->
             [sent |-> <<>>, text |-> None]

-----------------------------------------------------------------------------
(* Main loop: main *)

\* what main leaves alone while it is not inside a chat call
MainFrame ==
    /\ UNCHANGED <<args, captured, espCall, ttsCall, smile, late_puts>>
    /\ UNCHANGED <<conversation_history, frames, full_response, buffer, display_cmd,
                   noise, status, chatResult>>

\* lines 666-690: the welcome, and in realtime mode the start of the capture thread
MainWelcome ==
    /\ mainPc = "welcome"
    /\ events' = SpeakUnlessMuted(Welcome)
    /\ IF args.mode = "realtime"
       THEN /\ capPc' = "calibrate"
            /\ device' = Sent(<<Happy>>, "welcome") \o Sent(<<Neutral>>, "ready")
            /\ mainPc' = "get"
       ELSE /\ device' = Sent(<<Happy>>, "welcome")
            /\ mainPc' = "input"
            /\ UNCHANGED capPc
    /\ UNCHANGED <<continue_listening, audio_queue, audio, user_input, ai_response,
                   transcribed, gateIn, gateOut, chatPc>>
    /\ MainFrame

MainGetNewest ==
    /\ mainPc = "get"
    /\ audio_queue # <<>>
    /\ audio' = audio_queue[Len(audio_queue)]
    /\ audio_queue' = SubSeq(audio_queue, 1, Len(audio_queue) - 1)
    /\ device' = <<>>
    /\ events' = <<>>
    /\ mainPc' = "process"
    /\ UNCHANGED <<continue_listening, capPc, user_input, ai_response, transcribed,
                   gateIn, gateOut, chatPc>>
    /\ MainFrame

\* line 696: audio_queue.get(timeout=0.5) returns a chunk
MainGet ==
    /\ mainPc = "get"
    /\ audio_queue # <<>>
    /\ audio' = Head(audio_queue)
    /\ audio_queue' = Tail(audio_queue)
    /\ device' = <<>>
    /\ events' = <<>>
    /\ mainPc' = "process"
    /\ UNCHANGED <<continue_listening, capPc, user_input, ai_response, transcribed,
                   gateIn, gateOut, chatPc>>
    /\ MainFrame

\* line 696: the user presses Ctrl-C while main waits on the queue;
\* KeyboardInterrupt is not queue.Empty (line 726), so it leaves the loop
\* through the finally clause
MainInterrupt ==
    /\ mainPc = "get"
    /\ mainPc' = "unwind"
    /\ UNCHANGED <<continue_listening, audio_queue, capPc, audio, user_input,
                   ai_response, events, transcribed, device, gateIn, gateOut, chatPc>>
    /\ MainFrame

\* lines 726-728: queue.Empty, the loop goes round
MainGetEmpty ==
    /\ mainPc = "get"
    /\ audio_queue = <<>>
    /\ UNCHANGED vars

GateResultSilentAck(g) ==
    /\ gateOut' = g
    /\ IF g.kind = "ack"
       THEN /\ device' = device
                           \o (IF args.use_openai_speech
                               THEN Sent(<<Neutral>>, "transcribing") ELSE <<>>)
                           \o Sent(<<Neutral>>, "ack")
            /\ mainPc' = "followup"
            /\ UNCHANGED <<user_input, events>>
       ELSE /\ device' = device
                           \o (IF args.use_openai_speech
                               THEN Sent(<<Neutral>>, "transcribing") ELSE <<>>)
            /\ user_input' = IF g.kind = "command" THEN g.text ELSE None
            /\ mainPc' = "decide"
            /\ UNCHANGED events

\* The gate's outcome becomes main's user_input; a bare activation phrase is
\* acknowledged first (lines 474-478, 424-428).
GateResult(g) ==
    /\ gateOut' = g
    /\ IF g.kind = "ack"
       THEN /\ device' = device
                           \o (IF args.use_openai_speech
                               THEN Sent(<<Neutral>>, "transcribing") ELSE <<>>)
                           \o Sent(<<Neutral>>, "ack")
            /\ events' = events \o <<Event("speak", ImListening)>>
            /\ mainPc' = "followup"
            /\ UNCHANGED user_input
       ELSE /\ device' = device
                           \o (IF args.use_openai_speech
                               THEN Sent(<<Neutral>>, "transcribing") ELSE <<>>)
            /\ user_input' = IF g.kind = "command" THEN g.text ELSE None
            /\ mainPc' = "decide"
            /\ UNCHANGED events

\* line 699, process_audio: transcription and the activation gate
MainProcess(H) ==
    /\ mainPc = "process"
    /\ transcribed' = Append(transcribed, audio)
    /\ \E text \in H :
         /\ gateIn' = text
         /\ GateResult(IF args.use_openai_speech
                       THEN GateOpenAI(text, args.always_listen)
                       ELSE Gate(text, args.always_listen))
    /\ UNCHANGED <<continue_listening, audio_queue, capPc, audio, ai_response, chatPc>>
    /\ MainFrame

\* lines 398-401, 436-444, 485-493: the transcription fails, process_audio
\* returns None before its gate is reached
MainProcessFails ==
    /\ mainPc = "process"
    /\ transcribed' = Append(transcribed, audio)
    /\ device' = device
                   \o (IF args.use_openai_speech
                       THEN Sent(<<Neutral>>, "transcribing") ELSE <<>>)
    /\ user_input' = None
    /\ mainPc' = "decide"
    /\ gateIn' = None
    /\ gateOut' = [kind |-> "none", text |-> None]
    /\ UNCHANGED <<continue_listening, audio_queue, capPc, audio, ai_response, events,
                   chatPc>>
    /\ MainFrame

\* lines 481-482, 431-432: the follow-up capture of the gate
MainFollowUp ==
    /\ mainPc = "followup"
    /\ \E outcome \in ListenOutcomes, text \in FollowUps :
         LET r == listen_for_speech(outcome, text)
         IN  /\ device' = device \o Sent(r.sent, "listen")
             /\ user_input' = r.text
    /\ mainPc' = "decide"
    /\ UNCHANGED <<continue_listening, audio_queue, capPc, audio, ai_response, events,
                   transcribed, gateIn, gateOut, chatPc>>
    /\ MainFrame

\* lines 740-744: traditional mode, one blocking listen or one typed line
MainInput ==
    /\ mainPc = "input"
    /\ captured < MaxChunks
    /\ captured' = captured + 1
    /\ events' = <<>>
    /\ IF args.mode = "text"
       THEN /\ \E text \in Typed : user_input' = text
            /\ device' = <<>>
            /\ mainPc' = "decide"
       ELSE \E outcome \in ListenOutcomes \ {"no_microphone"}, text \in FollowUps :
              LET r == listen_for_speech(outcome, text)
              IN  /\ device' = Sent(r.sent, "listen")
                  /\ user_input' = r.text
                  /\ mainPc' = IF Truthy(r.text) THEN "decide" ELSE "input"
    /\ UNCHANGED <<continue_listening, audio_queue, capPc, audio, ai_response,
                   transcribed, gateIn, gateOut, chatPc>>
    /\ UNCHANGED <<args, espCall, ttsCall, smile, late_puts>>
    /\ UNCHANGED <<conversation_history, frames, full_response, buffer, display_cmd,
                   noise, status, chatResult>>

\* lines 701-714, 746-757: nothing to do, the exit phrases, or a chat call
MainDecide ==
    /\ mainPc = "decide"
    /\ IF args.mode = "realtime" /\ ~Truthy(user_input)
       THEN /\ mainPc' = "get"
            /\ UNCHANGED <<events, chatPc>>
       ELSE IF Lower(user_input) \in ExitPhrases
       THEN /\ events' = events \o SpeakUnlessMuted(Goodbye)
            /\ mainPc' = IF args.mode = "realtime" THEN "finally" ELSE "exited"
            /\ UNCHANGED chatPc
       ELSE /\ events' = events \o <<Event("chat", user_input)>>
            /\ chatPc' = "call"
            /\ mainPc' = "chat"
    /\ UNCHANGED <<continue_listening, audio_queue, capPc, audio, user_input,
                   ai_response, transcribed, device, gateIn, gateOut>>
    /\ MainFrame

\* the chat call returns into ai_response; its locals are gone
MainChatReturn ==
    /\ mainPc = "chat"
    /\ chatPc = "returned"
    /\ ai_response' = chatResult
    /\ chatPc' = "idle"
    /\ chatResult' = None
    /\ frames' = <<>>
    /\ full_response' = <<>>
    /\ buffer' = <<>>
    /\ display_cmd' = None
    /\ noise' = 0
    /\ status' = "none"
    /\ mainPc' = "speak"
    /\ UNCHANGED <<continue_listening, audio_queue, capPc, audio, user_input, events,
                   transcribed, device, gateIn, gateOut>>
    /\ UNCHANGED <<args, captured, espCall, ttsCall, smile, late_puts,
                   conversation_history>>

\* lines 720-721, 763-764: the reply is spoken
MainSpeak ==
    /\ mainPc = "speak"
    /\ events' = events \o SpeakUnlessMuted(ai_response)
    /\ mainPc' = "neutral"
    /\ UNCHANGED <<continue_listening, audio_queue, capPc, audio, user_input,
                   ai_response, transcribed, device, gateIn, gateOut, chatPc>>
    /\ MainFrame

MainNeutralSkipsAfterApology ==
    /\ mainPc = "neutral"
    /\ device' = IF ai_response = Apology THEN device
                 ELSE device \o Sent(<<Neutral>>, "ready")
    /\ events' = events \o <<Event("neutral", <<>>)>>
    /\ mainPc' = IF args.mode = "realtime" THEN "get" ELSE "input"
    /\ UNCHANGED <<continue_listening, audio_queue, capPc, audio, user_input,
                   ai_response, transcribed, gateIn, gateOut, chatPc>>
    /\ MainFrame

\* lines 724, 767: back to the neutral face
MainNeutral ==
    /\ mainPc = "neutral"
    /\ device' = device \o Sent(<<Neutral>>, "ready")
    /\ events' = events \o <<Event("neutral", <<>>)>>
    /\ mainPc' = IF args.mode = "realtime" THEN "get" ELSE "input"
    /\ UNCHANGED <<continue_listening, audio_queue, capPc, audio, user_input,
                   ai_response, transcribed, gateIn, gateOut, chatPc>>
    /\ MainFrame

\* line 717 (and line 220, the first line of speak_text): print writes the
\* reply to the console outside every try; when the console cannot take it
\* (a character its encoding lacks, a closed pipe) print raises, and the only
\* handler of the loop body is `except queue.Empty` (line 726): the exception
\* leaves the loop through the finally clause (realtime) or leaves main at once
MainPrintRaises ==
    /\ mainPc = "speak"
    /\ mainPc' = IF args.mode = "realtime" THEN "unwind" ELSE "crashed"
    /\ UNCHANGED <<continue_listening, audio_queue, capPc, audio, user_input,
                   ai_response, events, transcribed, device, gateIn, gateOut, chatPc>>
    /\ MainFrame

MainFinallyKeepsFlag ==
    /\ mainPc \in {"finally", "unwind"}
    /\ mainPc' = IF mainPc = "finally" THEN "join" ELSE "unwind_join"
    /\ UNCHANGED <<continue_listening, audio_queue, capPc, audio, user_input,
                   ai_response, events, transcribed, device, gateIn, gateOut, chatPc>>
    /\ MainFrame

\* lines 730-732: the stop flag is cleared, after a break and while an
\* exception unwinds alike
MainFinally ==
    /\ mainPc \in {"finally", "unwind"}
    /\ continue_listening' = FALSE
    /\ mainPc' = IF mainPc = "finally" THEN "join" ELSE "unwind_join"
    /\ UNCHANGED <<audio_queue, capPc, audio, user_input, ai_response, events,
                   transcribed, device, gateIn, gateOut, chatPc>>
    /\ MainFrame

MainJoinWaitsForThread ==
    /\ mainPc \in {"join", "unwind_join"}
    /\ capPc \in {"idle", "done", "dead"}
    /\ mainPc' = IF mainPc = "join" THEN "exited" ELSE "crashed"
    /\ UNCHANGED <<continue_listening, audio_queue, capPc, audio, user_input,
                   ai_response, events, transcribed, device, gateIn, gateOut, chatPc>>
    /\ MainFrame

\* lines 733-734: the thread has ended, or join(timeout=2) gives up; main
\* returns, or the unwinding exception leaves it
MainJoin ==
    /\ mainPc \in {"join", "unwind_join"}
    /\ mainPc' = IF mainPc = "join" THEN "exited" ELSE "crashed"
    /\ UNCHANGED <<continue_listening, audio_queue, capPc, audio, user_input,
                   ai_response, events, transcribed, device, gateIn, gateOut, chatPc>>
    /\ MainFrame

-----------------------------------------------------------------------------
(* The program *)

Modes == {"realtime", "voice", "text"}

Args ==
    [always_listen : BOOLEAN, mute : BOOLEAN, stream : BOOLEAN,
     use_openai_speech : BOOLEAN, mode : Modes]

\* the state after the module is loaded and the command line is parsed
Init ==
    /\ args \in Args
    /\ continue_listening = TRUE
    /\ audio_queue = <<>>
    /\ capPc = "idle"
    /\ captured = 0
    /\ mainPc = "welcome"
    /\ audio = 0
    /\ user_input = None
    /\ ai_response = None
    /\ conversation_history = <<SystemEntry>>
    /\ device = <<>>
    /\ events = <<>>
    /\ transcribed = <<>>
    /\ frames = <<>>
    /\ full_response = <<>>
    /\ buffer = <<>>
    /\ display_cmd = None
    /\ chatPc = "idle"
    /\ chatResult = None
    /\ gateIn = None
    /\ gateOut = [kind |-> "none", text |-> None]
    /\ noise = 0
    /\ status = "none"
    /\ espCall = [pc |-> "none"]
    /\ ttsCall = [pc |-> "none"]
    /\ smile = [pc |-> "none"]
    /\ late_puts = 0

Next ==
    \/ CapCalibrate
    \/ CapTest
    \/ CapListen
    \/ CapError
    \/ CapPut
    \/ CapSleep
    \/ MainWelcome
    \/ MainGet
    \/ MainGetEmpty
    \/ MainInterrupt
    \/ MainProcess(Heard)
    \/ MainProcessFails
    \/ MainFollowUp
    \/ MainInput
    \/ MainDecide
    \/ ChatStreamSend
    \/ ChatStreamStatus(MainStreams)
    \/ ChatStreamContent
    \/ ChatStreamSkip
    \/ ChatStreamDone
    \/ ChatStreamEnd
    \/ ChatStreamRaise
    \/ ChatStreamUnusable
    \/ ChatStreamFinish
    \/ ChatSend
    \/ ChatReceive(MainReplies)
    \/ ChatReceivePrintRaises(MainReplies)
    \/ ChatRaise
    \/ MainChatReturn
    \/ MainSpeak
    \/ MainPrintRaises
    \/ MainNeutral
    \/ MainFinally
    \/ MainJoin

Spec == Init /\ [][Next]_vars

-----------------------------------------------------------------------------
(* The chat calls on their own: every reply in every fragmentation *)

ChatInputs == {Hi, <<>>}

ChatInit ==
    /\ args \in {a \in Args : a.mode = "text" /\ a.always_listen /\ ~a.mute
                              /\ ~a.use_openai_speech}
    /\ continue_listening = TRUE
    /\ audio_queue = <<>>
    /\ capPc = "idle"
    /\ captured = 0
    /\ mainPc = "chat"
    /\ audio = 0
    /\ user_input \in ChatInputs
    /\ ai_response = None
    /\ conversation_history = <<SystemEntry>>
    /\ device = <<>>
    /\ events = <<>>
    /\ transcribed = <<>>
    /\ frames = <<>>
    /\ full_response = <<>>
    /\ buffer = <<>>
    /\ display_cmd = None
    /\ chatPc = "call"
    /\ chatResult = None
    /\ gateIn = None
    /\ gateOut = [kind |-> "none", text |-> None]
    /\ noise = 0
    /\ status = "none"
    /\ espCall = [pc |-> "none"]
    /\ ttsCall = [pc |-> "none"]
    /\ smile = [pc |-> "none"]
    /\ late_puts = 0

ChatNext ==
    \/ ChatStreamSend
    \/ ChatStreamStatus(Streams)
    \/ ChatStreamContent
    \/ ChatStreamPrintRaises
    \/ ChatStreamSkip
    \/ ChatStreamDone
    \/ ChatStreamEnd
    \/ ChatStreamRaise
    \/ ChatStreamUnusable
    \/ ChatStreamFinish
    \/ ChatSend
    \/ ChatReceive(Replies)
    \/ ChatReceivePrintRaises(Replies)
    \/ ChatRaise

ChatSpec == ChatInit /\ [][ChatNext]_vars

-----------------------------------------------------------------------------
(* The activation gate on its own: every text made of a few pieces *)

\* a transcribed text is made of at most this many pieces
MaxPieces == 3

TextPieces ==
    {activation_phrases[k] : k \in 1..Len(activation_phrases)}
        \cup {<<" ">>, Hi, Quit, <<"d","e","s","k">>}

RECURSIVE TextsOf(_)
TextsOf(n) ==
    IF n = 0 THEN {<<>>}
    ELSE TextsOf(n - 1) \cup {t \o q : t \in TextsOf(n - 1), q \in TextPieces}

\* lower-cased transcriptions
Texts == TextsOf(MaxPieces)

GateInit ==
    /\ args \in {a \in Args : a.mode = "realtime" /\ ~a.mute /\ ~a.stream}
    /\ continue_listening = TRUE
    /\ audio_queue = <<>>
    /\ capPc = "idle"
    /\ captured = 1
    /\ mainPc = "process"
    /\ audio = 1
    /\ user_input = None
    /\ ai_response = None
    /\ conversation_history = <<SystemEntry>>
    /\ device = <<>>
    /\ events = <<>>
    /\ transcribed = <<>>
    /\ frames = <<>>
    /\ full_response = <<>>
    /\ buffer = <<>>
    /\ display_cmd = None
    /\ chatPc = "idle"
    /\ chatResult = None
    /\ gateIn = None
    /\ gateOut = [kind |-> "none", text |-> None]
    /\ noise = 0
    /\ status = "none"
    /\ espCall = [pc |-> "none"]
    /\ ttsCall = [pc |-> "none"]
    /\ smile = [pc |-> "none"]
    /\ late_puts = 0

GateNext ==
    \/ MainProcess(Texts)
    \/ MainProcessFails
    \/ MainFollowUp

GateSpec == GateInit /\ [][GateNext]_vars

-----------------------------------------------------------------------------
(* The display clients on their own *)

\* esp_update_interval of the smile detector, 0.5 s, in tenths of a second
esp_update_interval == 5

SmileSendStampsOnFailure(state, outcome, now, last) ==
    IF now - last < esp_update_interval
    THEN [requests |-> <<>>, returned |-> TRUE, value |-> FALSE, raised |-> FALSE,
          last_esp_update |-> last]
    ELSE [requests |-> <<state>>, returned |-> TRUE, value |-> FALSE, raised |-> FALSE,
          last_esp_update |-> now]

\* One call of the smile detector's send_to_esp32(state) at time `now` (tenths
\* of a second) with last_esp_update = `last`: the requests it makes, whether
\* an exception leaves it, and the new last_esp_update.
smile_send_to_esp32(state, outcome, now, last) ==
    IF now - last < esp_update_interval
    THEN [requests |-> <<>>, returned |-> TRUE, value |-> FALSE, raised |-> FALSE,
          last_esp_update |-> last]
    ELSE IF ~IsException(outcome)
    THEN [requests |-> <<state>>, returned |-> TRUE, value |-> FALSE, raised |-> FALSE,
          last_esp_update |-> now]
    ELSE [requests |-> <<state>>, returned |-> TRUE, value |-> FALSE, raised |-> FALSE,
          last_esp_update |-> last]

\* at most this many calls of a display client
MaxCalls == 2
\* the clock runs up to this many tenths of a second
MaxTime == 6

EspCommands == MoodTags \cup {TimeText, WeatherText}

EspFrame ==
    /\ UNCHANGED <<args, continue_listening, audio_queue, capPc, captured, mainPc,
                   audio, user_input, ai_response, events, transcribed, gateIn, gateOut>>
    /\ UNCHANGED <<conversation_history, frames, full_response, buffer, display_cmd,
                   noise, status, chatPc, chatResult, ttsCall, smile,
                   late_puts>>

\* a caller calls ai_desk_bot's send_to_esp32
EspCall ==
    /\ espCall.pc \in {"ready", "returned"}
    /\ espCall.n < MaxCalls
    /\ \E command \in EspCommands, outcome \in HttpOutcomes :
         LET r == send_to_esp32(command, outcome)
         IN  /\ espCall' = [espCall EXCEPT
                               !.pc = IF r.raised THEN "raised" ELSE "returned",
                               !.n = @ + 1, !.client = "bot", !.command = command,
                               !.outcome = outcome, !.requests = r.requests,
                               !.returned = r.returned, !.raised = r.raised,
                               !.throttled = FALSE]
             /\ device' = device \o Sent(r.requests, "caller")
    /\ EspFrame

\* process_frame_loop calls the smile detector's send_to_esp32
SmileEspCall ==
    /\ espCall.pc \in {"ready", "returned"}
    /\ espCall.n < MaxCalls
    /\ \E state \in {Happy, Neutral}, outcome \in HttpOutcomes :
         LET r == smile_send_to_esp32(state, outcome, espCall.now, espCall.last_esp_update)
         IN  /\ espCall' = [espCall EXCEPT
                               !.pc = IF r.raised THEN "raised" ELSE "returned",
                               !.n = @ + 1, !.client = "smile", !.command = state,
                               !.outcome = outcome, !.requests = r.requests,
                               !.returned = r.returned, !.raised = r.raised,
                               !.throttled =
                                   espCall.now - espCall.last_esp_update < esp_update_interval,
                               !.last_esp_update = r.last_esp_update]
             /\ device' = device \o Sent(r.requests, "smile")
    /\ EspFrame

\* time passes
EspTick ==
    /\ espCall.pc \in {"ready", "returned"}
    /\ espCall.now < MaxTime
    /\ espCall' = [espCall EXCEPT !.now = @ + 1]
    /\ UNCHANGED device
    /\ EspFrame

EspInit ==
    /\ args \in {a \in Args : a.mode = "text" /\ a.always_listen /\ ~a.mute
                              /\ ~a.use_openai_speech /\ ~a.stream}
    /\ continue_listening = TRUE
    /\ audio_queue = <<>>
    /\ capPc = "idle"
    /\ captured = 0
    /\ mainPc = "welcome"
    /\ audio = 0
    /\ user_input = None
    /\ ai_response = None
    /\ conversation_history = <<SystemEntry>>
    /\ device = <<>>
    /\ events = <<>>
    /\ transcribed = <<>>
    /\ frames = <<>>
    /\ full_response = <<>>
    /\ buffer = <<>>
    /\ display_cmd = None
    /\ chatPc = "idle"
    /\ chatResult = None
    /\ gateIn = None
    /\ gateOut = [kind |-> "none", text |-> None]
    /\ noise = 0
    /\ status = "none"
    /\ espCall = [pc |-> "ready", n |-> 0, client |-> "none", command |-> None,
                  outcome |-> "none", requests |-> <<>>, returned |-> FALSE,
                  raised |-> FALSE, throttled |-> FALSE, now |-> 0,
                  last_esp_update |-> 0]
    /\ ttsCall = [pc |-> "none"]
    /\ smile = [pc |-> "none"]
    /\ late_puts = 0

EspNext ==
    \/ EspCall
    \/ SmileEspCall
    \/ EspTick

EspSpec == EspInit /\ [][EspNext]_vars

-----------------------------------------------------------------------------
(* The capture thread under fair scheduling of its own steps.  A capture     *)
(* (recognizer.listen without a timeout) returns when the room decides, so   *)
(* CapListen and CapError carry no fairness.  Main runs its finally clause   *)
(* and its join, whose timeout bounds the wait, without outside help.        *)

FairInit ==
    /\ Init
    /\ args.mode = "realtime"
    /\ ~args.mute
    /\ ~args.use_openai_speech

\* realtime mode never reaches the traditional input step
RealtimeNext ==
    \/ CapCalibrate
    \/ CapTest
    \/ CapListen
    \/ CapError
    \/ CapPut
    \/ CapSleep
    \/ MainWelcome
    \/ MainGet
    \/ MainGetEmpty
    \/ MainInterrupt
    \/ MainProcess(Heard)
    \/ MainProcessFails
    \/ MainFollowUp
    \/ MainDecide
    \/ ChatStreamSend
    \/ ChatStreamStatus(MainStreams)
    \/ ChatStreamContent
    \/ ChatStreamSkip
    \/ ChatStreamDone
    \/ ChatStreamEnd
    \/ ChatStreamRaise
    \/ ChatStreamUnusable
    \/ ChatStreamFinish
    \/ ChatSend
    \/ ChatReceive(MainReplies)
    \/ ChatReceivePrintRaises(MainReplies)
    \/ ChatRaise
    \/ MainChatReturn
    \/ MainSpeak
    \/ MainPrintRaises
    \/ MainNeutral
    \/ MainFinally
    \/ MainJoin

FairSpec ==
    /\ FairInit
    /\ [][RealtimeNext]_vars
    /\ WF_vars(CapTest)
    /\ WF_vars(CapPut)
    /\ WF_vars(CapSleep)
    /\ WF_vars(MainFinally)
    /\ WF_vars(MainJoin)

-----------------------------------------------------------------------------
(* Claims *)

\* the commands sent from the call sites `sites`, in order
CommandsBy(sites) ==
    LET picked == SelectSeq(device, LAMBDA e : e.by \in sites)
    IN  [k \in 1..Len(picked) |-> picked[k].cmd]

\* s holds "[DISPLAY:" followed, somewhere after it, by "]"
HasDirective(s) ==
    \E i \in 0..Len(s) :
        /\ OccursAt(s, Marker, i)
        /\ \E j \in (i + Len(Marker))..Len(s) : OccursAt(s, Close, j)

\* the tag of the first directive of s: the text between the first "[DISPLAY:"
\* and the first "]" after it, lower-cased
FirstTag(s) ==
    LET i == CHOOSE i \in 0..Len(s) :
                 /\ OccursAt(s, Marker, i)
                 /\ \A h \in 0..(i - 1) : ~OccursAt(s, Marker, h)
        j == CHOOSE j \in (i + Len(Marker))..Len(s) :
                 /\ OccursAt(s, Close, j)
                 /\ \A h \in (i + Len(Marker))..(j - 1) : ~OccursAt(s, Close, h)
    IN  Lower(Slice(s, i + Len(Marker), j))

\* the device command a directive tag stands for, none for an unknown tag
CommandOfTag(tag) ==
    IF tag \in MoodTags \/ StartsWith(tag, TextPrefix) THEN <<tag>>
    ELSE IF tag = TimeCmd THEN <<TimeText>>
    ELSE IF tag = WeatherCmd THEN <<WeatherText>>
    ELSE <<>>

\* C1 (as claimed): one call of chat_with_ai_stream sends the device at most one
\* command for the reply's directive, counting the in-stream dispatch and the
\* one of process_display_commands at the end; for "Hi! [DISPLAY:happy]" the
\* device receives happy exactly once.
C1_DispatchAtMostOnce ==
    args.stream =>
        /\ Len(CommandsBy({"stream", "final"})) <= 1
        /\ (chatPc = "returned" /\ status = "200" /\ full_response = HiHappy
              /\ chatResult # Apology
                => CommandsBy({"stream", "final"}) = <<Happy>>)

\* C4: a chat call answered with a status other than 200 returns the apology
\* and leaves the transcript with the user entry as its last entry, no
\* assistant entry added (both chat_with_ai and chat_with_ai_stream).
C4_Non200Apology ==
    (chatPc = "returned" /\ status \notin {"none", "200"}) =>
        /\ chatResult = Apology
        /\ conversation_history = <<SystemEntry, UserEntry(user_input)>>

C4_Witness ==
    /\ chatPc = "returned"
    /\ status = "500"
    /\ args.stream
    /\ chatResult = Apology

\* C5: while the stream is still being read, as soon as the buffer holds a
\* complete directive the command of its tag has been sent from inside the
\* stream loop: the dispatch is made by the step that consumed the completing
\* fragment, before any later fragment and before the end of the stream.
C5_DispatchOnCompletion ==
    (args.stream /\ chatPc = "iter" /\ HasDirective(buffer)) =>
        CommandsBy({"stream"}) = CommandOfTag(FirstTag(buffer))

C5_Witness ==
    /\ args.stream
    /\ chatPc = "iter"
    /\ frames # <<>>
    /\ HasDirective(buffer)
    /\ CommandsBy({"stream"}) = <<Happy>>

\* C7: a call of send_to_esp32 returns normally whatever the HTTP request does
\* (no exception leaves it), and it makes one request and no second one; the
\* smile detector's copy makes none while its update interval has not passed.
C7_EspNeverRaises ==
    espCall.pc # "ready" =>
        /\ espCall.pc = "returned"
        /\ espCall.returned
        /\ ~espCall.raised
        /\ espCall.requests = IF espCall.throttled THEN <<>> ELSE <<espCall.command>>

C7_Witness ==
    /\ espCall.pc = "returned"
    /\ espCall.client = "bot"
    /\ espCall.outcome = "connection_error"
    /\ espCall.requests = <<espCall.command>>

\* C8: the chunks main has taken from audio_queue, followed by the chunks still
\* queued, are the chunks the capture thread enqueued, in the order it enqueued
\* them (1, 2, ...): chunks are taken first in first out, and none is handed to
\* the transcription step twice.
C8_FifoAtMostOnce ==
    LET taken == transcribed \o (IF mainPc = "process" THEN <<audio>> ELSE <<>>)
        all == taken \o audio_queue
    IN  /\ \A k \in 1..Len(all) : all[k] = k
        /\ Len(all) <= captured

C8_Witness ==
    /\ mainPc \in {"chat", "speak"}
    /\ transcribed = <<1>>
    /\ audio_queue = <<2>>

\* C9: every step leaves conversation_history unchanged or appends to it: the
\* old transcript is a prefix of the new one, and its first entry is the system
\* prompt.
C9_HistoryOnlyGrows ==
    [][/\ Len(conversation_history') >= Len(conversation_history)
       /\ SubSeq(conversation_history', 1, Len(conversation_history))
              = conversation_history
       /\ conversation_history'[1] = SystemEntry]_vars

C9_Witness ==
    /\ Len(conversation_history) = 5
    /\ mainPc = "get"

\* C10: when a main-loop cycle that called the chat pipeline is over, what it
\* did from the chat call on is: the chat call, then the reply spoken (unless
\* muted), then neutral sent to the device; neutral is the last command the
\* device got, also when the chat call returned the apology.
C10_ChatSpeakNeutral ==
    (mainPc \in {"get", "input"} /\ \E k \in 1..Len(events) : events[k].what = "chat") =>
        LET k == CHOOSE k \in 1..Len(events) : events[k].what = "chat"
        IN  /\ SubSeq(events, k, Len(events))
                  = <<Event("chat", user_input)>> \o SpeakUnlessMuted(ai_response)
                      \o <<Event("neutral", <<>>)>>
            /\ device # <<>>
            /\ device[Len(device)] = [cmd |-> Neutral, by |-> "ready"]

C10_Witness ==
    /\ mainPc = "get"
    /\ \E k \in 1..Len(events) : events[k].what = "chat"
    /\ ai_response = Apology
    /\ ~args.mute

\* s without its first occurrence of p
WithoutFirst(s, p) ==
    LET i == CHOOSE i \in 0..Len(s) :
                 OccursAt(s, p, i) /\ \A h \in 0..(i - 1) : ~OccursAt(s, p, h)
    IN  [k \in 1..(Len(s) - Len(p)) |-> IF k <= i THEN s[k] ELSE s[k + Len(p)]]

\* s without every occurrence of p, read left to right in one pass
RECURSIVE WithoutEvery(_, _)
WithoutEvery(s, p) ==
    IF s = <<>> THEN <<>>
    ELSE IF OccursAt(s, p, 0) THEN WithoutEvery(SubSeq(s, Len(p) + 1, Len(s)), p)
    ELSE <<Head(s)>> \o WithoutEvery(Tail(s), p)

\* s without the blanks at its two ends
Trimmed(s) ==
    LET inner == {k \in 1..Len(s) : s[k] # " "}
    IN  IF inner = {} THEN <<>>
        ELSE SubSeq(s, CHOOSE a \in inner : \A k \in inner : a <= k,
                       CHOOSE b \in inner : \A k \in inner : b >= k)

\* the first phrase of activation_phrases, in list order, that occurs in text
MatchedPhrase(text) ==
    activation_phrases[CHOOSE k \in 1..Len(activation_phrases) :
        /\ \E i \in 0..Len(text) : OccursAt(text, activation_phrases[k], i)
        /\ \A h \in 1..(k - 1) :
               \A i \in 0..Len(text) : ~OccursAt(text, activation_phrases[h], i)]

HasPhrase(text) ==
    \E k \in 1..Len(activation_phrases) :
        \E i \in 0..Len(text) : OccursAt(text, activation_phrases[k], i)

\* C2 (as claimed): for a text that contains an activation phrase (and has no
\* blanks at its ends), the command the gate returns is the text with exactly
\* the matched occurrence of the first matching phrase removed and the rest
\* unchanged.
C2_RemovesOneOccurrence ==
    (gateOut.kind = "command" /\ HasPhrase(gateIn) /\ Trimmed(gateIn) = gateIn) =>
        gateOut.text = WithoutFirst(gateIn, MatchedPhrase(gateIn))

\* C2 (amended): for a text that contains an activation phrase, the gate removes
\* every occurrence of the first matching phrase and strips the blanks at both
\* ends of what is left; that is the command it returns when it is not empty,
\* and when it is empty the gate acknowledges instead.
C2_RemovesEveryOccurrenceAndStrips ==
    (gateOut.kind # "none" /\ HasPhrase(gateIn)) =>
        /\ gateOut.text = Trimmed(WithoutEvery(gateIn, MatchedPhrase(gateIn)))
        /\ gateOut.kind = IF gateOut.text = <<>> THEN "ack" ELSE "command"

C2_Witness ==
    /\ gateOut.kind = "command"
    /\ gateIn = HeyBot \o Hi \o HeyBot
    /\ gateOut.text = Hi

\* C3 (as claimed): in always-listen mode the gate returns the (non-empty)
\* transcribed text unchanged as the command, with or without an activation
\* phrase in it.
C3_AlwaysListenUnchanged ==
    (args.always_listen /\ gateOut.kind # "none" /\ gateIn # <<>>) =>
        gateOut = [kind |-> "command", text |-> gateIn]

\* C3 (amended): in always-listen mode the gate ignores no non-empty text: one
\* without an activation phrase is returned unchanged as the command; one with
\* an activation phrase has the phrase removed and the ends stripped as in
\* activation-only mode, and is acknowledged when nothing is left.
C3_AlwaysListenNeverIgnores ==
    (args.always_listen /\ gateOut.kind # "none" /\ gateIn # <<>>) =>
        IF HasPhrase(gateIn)
        THEN /\ gateOut.text = Trimmed(WithoutEvery(gateIn, MatchedPhrase(gateIn)))
             /\ gateOut.kind = IF gateOut.text = <<>> THEN "ack" ELSE "command"
        ELSE gateOut = [kind |-> "command", text |-> gateIn]

C3_Witness ==
    /\ args.always_listen
    /\ gateIn = <<" ">> \o Hi
    /\ gateOut = [kind |-> "command", text |-> <<" ">> \o Hi]

\* C6 (as claimed): once continue_listening is cleared the capture thread
\* leaves its loop.
C6_ThreadLeavesLoop ==
    (~continue_listening /\ capPc \in {"test", "listen", "put", "sleep"})
        ~> (capPc = "done")

\* C6 (amended): once continue_listening is cleared, a capture thread that is
\* not inside a capture leaves its loop at its next loop test, after at most the
\* put it was about to make; a thread inside a capture leaves only after that
\* capture has returned.
C6_ThreadLeavesLoopOutsideCapture ==
    (~continue_listening /\ capPc \in {"test", "put", "sleep"}) ~> (capPc = "done")

C6_Witness ==
    /\ ~continue_listening
    /\ capPc = "done"

-----------------------------------------------------------------------------
(* The exit phrases and the ways main ends *)

\* main decides on an effective command that is an exit phrase
ExitCommand ==
    /\ mainPc = "decide"
    /\ args.mode = "realtime" => Truthy(user_input)
    /\ Lower(user_input) \in ExitPhrases

\* main's positions from the break of the loop on
Shutdown == {"finally", "join", "exited"}

\* C11: the step main takes on an effective command that lower-cases to quit,
\* exit or bye starts no chat call, leaves conversation_history as it is and
\* enters the shutdown; the shutdown is never left, no chat call is started
\* and the transcript is not touched in it, and in realtime mode the flag
\* continue_listening is false from the finally clause on.
C11_ExitShutsDown ==
    [][/\ (ExitCommand /\ mainPc' # mainPc) =>
             /\ mainPc' = IF args.mode = "realtime" THEN "finally" ELSE "exited"
             /\ chatPc' = "idle"
             /\ conversation_history' = conversation_history
       /\ mainPc \in Shutdown =>
             /\ mainPc' \in Shutdown
             /\ chatPc' = "idle"
             /\ conversation_history' = conversation_history
             /\ (args.mode = "realtime" /\ mainPc' \in {"join", "exited"})
                    => ~continue_listening']_vars

C11_Witness ==
    /\ mainPc = "exited"
    /\ args.mode = "realtime"
    /\ user_input = <<"Q","u","i","t">>
    /\ ~continue_listening
    /\ Len(conversation_history) = 3

\* C12 (as claimed): the realtime loop is only ever left by an exit phrase:
\* whenever main is past its loop, the effective command of the last cycle
\* was quit, exit or bye.
C12_OnlyExitPhraseEndsLoop ==
    (args.mode = "realtime"
       /\ mainPc \in Shutdown \cup {"unwind", "unwind_join", "crashed"})
        => Lower(user_input) \in ExitPhrases

-----------------------------------------------------------------------------
(* The gate inside the main loop *)

\* C13: in activation-only mode, when the transcription of the chunk main is
\* deciding on holds no activation phrase, the gate has returned no command
\* and nothing was spoken or asked of the chat service in this cycle; main's
\* next step goes back to waiting on the queue, starting no chat call and
\* leaving conversation_history and the cycle's events as they are.
C13_IgnoredUtterance ==
    [][(/\ mainPc = "decide"
        /\ args.mode = "realtime"
        /\ ~args.always_listen
        /\ gateIn # None
        /\ ~HasPhrase(gateIn)) =>
          /\ gateOut.kind = "ignored"
          /\ user_input = None
          /\ events = <<>>
          /\ chatPc = "idle"
          /\ mainPc' # mainPc =>
               /\ mainPc' = "get"
               /\ chatPc' = "idle"
               /\ events' = <<>>
               /\ conversation_history' = conversation_history]_vars

C13_Witness ==
    /\ mainPc = "get"
    /\ ~args.always_listen
    /\ gateIn = Hi
    /\ gateOut.kind = "ignored"
    /\ transcribed = <<1>>
    /\ events = <<>>
    /\ conversation_history = <<SystemEntry>>

\* the device log entries of one listen_for_speech call, and what it returned
IsOneListen(sent, text) ==
    \E outcome \in ListenOutcomes, heard \in FollowUps :
        /\ sent = Sent(listen_for_speech(outcome, heard).sent, "listen")
        /\ text = listen_for_speech(outcome, heard).text

\* C14: the gate asks for a follow-up exactly when nothing is left of the text
\* after the activation phrase is stripped; the step that finds this speaks
\* "I'm listening" once; the next step of main is one listen_for_speech call,
\* which takes nothing from audio_queue and hands no chunk to the
\* transcription, and what it returns (a text, or nothing) is the effective
\* command main decides on.
C14_AckThenOneFollowUp ==
    [][/\ (mainPc = "process" /\ mainPc' # mainPc) =>
             /\ mainPc' = "followup" <=> gateOut'.kind = "ack"
             /\ gateOut'.kind = "ack" =>
                  /\ gateOut'.text = <<>>
                  /\ events' = events \o <<Event("speak", ImListening)>>
       /\ (mainPc = "followup" /\ mainPc' # mainPc) =>
             /\ mainPc' = "decide"
             /\ audio_queue' = audio_queue
             /\ transcribed' = transcribed
             /\ events' = <<Event("speak", ImListening)>>
             /\ \E n \in 0..3 :
                  /\ Len(device') = Len(device) + n
                  /\ SubSeq(device', 1, Len(device)) = device
                  /\ IsOneListen(SubSeq(device', Len(device) + 1, Len(device')),
                                 user_input')
       /\ mainPc' = "followup" => mainPc \in {"process", "followup"}]_vars

C14_Witness ==
    /\ mainPc = "decide"
    /\ gateIn = HeyBot
    /\ gateOut.kind = "ack"
    /\ user_input = Hi
    /\ events = <<Event("speak", ImListening)>>
    /\ transcribed = <<1>>
    /\ audio_queue = <<2>>

\* C15 (as claimed): while continue_listening is true the capture thread,
\* once started, has not stopped, whatever errors the microphone gave.
C15_ThreadSurvivesErrors ==
    continue_listening => capPc \notin {"dead", "done"}

-----------------------------------------------------------------------------
(* Directives of one reply *)

TwoDirectives == Concat(<<Marker, Happy, Close, Marker, Sad, Close>>)

\* the reply of the chat call in progress, as far as it has been received
ReplySoFar ==
    IF args.stream THEN full_response
    ELSE IF Len(conversation_history) = 3 THEN conversation_history[3].content
    ELSE <<>>

\* C16: every device command a chat call sends for its reply, from inside the
\* stream loop or from process_display_commands, is the command of the
\* reply's first directive (the first "[DISPLAY:" up to the first "]" after
\* it): no command is ever sent for a second directive of the same reply.
C16_OnlyFirstDirective ==
    \A k \in 1..Len(CommandsBy({"stream", "final"})) :
        /\ HasDirective(ReplySoFar)
        /\ <<CommandsBy({"stream", "final"})[k]>> = CommandOfTag(FirstTag(ReplySoFar))

C16_Witness ==
    /\ chatPc = "returned"
    /\ ~args.stream
    /\ status = "200"
    /\ ReplySoFar = TwoDirectives
    /\ CommandsBy({"stream", "final"}) = <<Happy>>

\* C17 (as claimed): when chat_with_ai_stream has completed, the last entry of
\* conversation_history is the assistant entry with the full text received,
\* and the text returned holds no complete "[DISPLAY:...]" directive; for
\* "Hi! [DISPLAY:happy]" it is "Hi! ".
C17_ReturnsTextWithoutMarkup ==
    (args.stream /\ chatPc = "returned" /\ Len(conversation_history) = 3) =>
        /\ conversation_history[3] = AssistantEntry(full_response)
        /\ ~HasDirective(chatResult)
        /\ full_response = HiHappy => chatResult = HiBang

\* C20 (as claimed): when chat_with_ai_stream returns after a 200 response
\* whose connection held, whatever unusable lines the stream carried, it
\* returns the text of the content frames it read with the directive removed
\* and has appended the assistant entry with that text.
C20_UnusableFramesSkipped ==
    (args.stream /\ chatPc = "returned" /\ status = "200") =>
        /\ chatResult = process_display_commands(full_response).text
        /\ conversation_history
             = <<SystemEntry, UserEntry(user_input), AssistantEntry(full_response)>>

-----------------------------------------------------------------------------
(* Speech: speak_text and speak_with_openai_tts *)

\* how the cloud request of speak_with_openai_tts can end
CloudOutcomes == {"ok", "request_exception", "non_200", "playback_error"}
\* how the local engine can end
LocalOutcomes == {"ok", "error"}

\* speak_with_openai_tts(text, voice), lines 128-216: the requests it makes,
\* whether the text was played, whether an exception leaves it.  Every failure
\* is handled inside: the non-200 branch prints (lines 203-205), the playback
\* error is caught at line 200, anything else at line 207.
speak_with_openai_tts(text, outcome) ==
    IF ~Truthy(text)
    THEN [posts |-> 0, played |-> FALSE, raised |-> FALSE]
    ELSE [posts |-> 1, played |-> outcome = "ok", raised |-> FALSE]

\* speak_text(text, use_openai_tts, voice), lines 218-239
speak_text(text, use_openai_tts, outcome, local) ==
    LET cloud == IF use_openai_tts THEN speak_with_openai_tts(text, outcome)
                 ELSE [posts |-> 0, played |-> FALSE, raised |-> FALSE]
        success == use_openai_tts /\ ~cloud.raised
        fallback == ~use_openai_tts \/ ~success
    IN  [posts |-> cloud.posts,
         local |-> IF fallback THEN 1 ELSE 0,
         played |-> cloud.played \/ (fallback /\ local = "ok"),
         raised |-> FALSE]

\* number of speak_text calls made
MaxSpeaks == 3

TtsTexts == {Hi, ImListening, <<>>}

TtsFrame ==
    /\ UNCHANGED <<args, continue_listening, audio_queue, capPc, captured, mainPc,
                   audio, user_input, ai_response, events, transcribed, gateIn, gateOut>>
    /\ UNCHANGED <<conversation_history, frames, full_response, buffer, display_cmd,
                   noise, status, chatPc, chatResult, device, espCall, smile,
                   late_puts>>

\* a caller calls speak_text
TtsSpeak ==
    /\ ttsCall.pc \in {"ready", "returned"}
    /\ ttsCall.n < MaxSpeaks
    /\ \E text \in TtsTexts, use_openai_tts \in BOOLEAN,
          outcome \in CloudOutcomes, local \in LocalOutcomes :
         LET r == speak_text(text, use_openai_tts, outcome, local)
         IN  ttsCall' = [pc |-> IF r.raised THEN "raised" ELSE "returned",
                         n |-> ttsCall.n + 1, text |-> text,
                         use_openai_tts |-> use_openai_tts, outcome |-> outcome,
                         engine |-> local,
                         posts |-> r.posts, local |-> r.local, played |-> r.played]
    /\ TtsFrame

TtsInit ==
    /\ args \in {a \in Args : a.mode = "text" /\ a.always_listen /\ ~a.mute
                              /\ ~a.use_openai_speech /\ ~a.stream}
    /\ continue_listening = TRUE
    /\ audio_queue = <<>>
    /\ capPc = "idle"
    /\ captured = 0
    /\ mainPc = "welcome"
    /\ audio = 0
    /\ user_input = None
    /\ ai_response = None
    /\ conversation_history = <<SystemEntry>>
    /\ device = <<>>
    /\ events = <<>>
    /\ transcribed = <<>>
    /\ frames = <<>>
    /\ full_response = <<>>
    /\ buffer = <<>>
    /\ display_cmd = None
    /\ chatPc = "idle"
    /\ chatResult = None
    /\ gateIn = None
    /\ gateOut = [kind |-> "none", text |-> None]
    /\ noise = 0
    /\ status = "none"
    /\ espCall = [pc |-> "none"]
    /\ ttsCall = [pc |-> "ready", n |-> 0, text |-> None, use_openai_tts |-> FALSE,
                  outcome |-> "none", engine |-> "none", posts |-> 0, local |-> 0,
                  played |-> FALSE]
    /\ smile = [pc |-> "none"]
    /\ late_puts = 0

TtsNext == TtsSpeak

TtsSpec == TtsInit /\ [][TtsNext]_vars

\* C18 (as claimed): a speak_text call with cloud speech selected and a text
\* to say uses the local engine once when the cloud request failed (request
\* exception, non-200 status, playback error) and not at all when it worked.
C18_FallbackOnCloudFailure ==
    (ttsCall.pc = "returned" /\ ttsCall.use_openai_tts /\ Truthy(ttsCall.text)) =>
        ttsCall.local = IF ttsCall.outcome = "ok" THEN 0 ELSE 1

\* C19 (as claimed): with the mute flag set no cycle of the program ever
\* calls speak_text.
C19_MuteNeverSpeaks ==
    args.mute => \A k \in 1..Len(events) : events[k].what # "speak"

-----------------------------------------------------------------------------
(* The end of main in realtime mode *)

\* C21: once main has left the realtime loop (by the break or by an exception)
\* it ends: it clears continue_listening, makes its one join, whose timeout
\* does not depend on what the capture thread does, and returns; this also
\* when the thread stays inside a capture for ever.
C21_MainTerminates ==
    (mainPc \in {"finally", "unwind"}) ~> (mainPc \in {"exited", "crashed"})

C21_Witness ==
    /\ mainPc = "exited"
    /\ ~continue_listening
    /\ capPc = "listen"

-----------------------------------------------------------------------------
(* The tags of a directive *)

\* the first directive of s as written: from the first "[DISPLAY:" to the
\* first "]" after it
FirstDirective(s) ==
    LET i == CHOOSE i \in 0..Len(s) :
                 /\ OccursAt(s, Marker, i)
                 /\ \A h \in 0..(i - 1) : ~OccursAt(s, Marker, h)
        j == CHOOSE j \in (i + Len(Marker))..Len(s) :
                 /\ OccursAt(s, Close, j)
                 /\ \A h \in (i + Len(Marker))..(j - 1) : ~OccursAt(s, Close, h)
    IN  Slice(s, i, j + 1)

\* a chat call has returned the reply it received
ChatSucceeded ==
    /\ chatPc = "returned"
    /\ status = "200"
    /\ Len(conversation_history) = 3
    /\ chatResult # Apology

\* C22 (as claimed): a chat call sends the device a command for its reply's
\* directive only when the lower-cased tag is one of the six mood tags or
\* starts with "text:", and the command is the tag.
C22_OnlyMoodOrText ==
    CommandsBy({"stream", "final"}) # <<>> =>
        /\ HasDirective(ReplySoFar)
        /\ FirstTag(ReplySoFar) \in MoodTags
              \/ StartsWith(FirstTag(ReplySoFar), TextPrefix)
        /\ \A k \in 1..Len(CommandsBy({"stream", "final"})) :
              CommandsBy({"stream", "final"})[k] = FirstTag(ReplySoFar)

\* C22 (amended): a command is sent only for a lower-cased tag that is a mood
\* tag, time, weather or starts with "text:"; it is the tag itself for a mood
\* tag and for a text: literal, the clock text for time and the weather text
\* for weather; a known tag of a completed reply has been sent, any other tag
\* sends nothing, and in both cases the directive is cut out of the text the
\* call returns.
C22_TagDispatch ==
    /\ CommandsBy({"stream", "final"}) # <<>> =>
          /\ HasDirective(ReplySoFar)
          /\ \/ FirstTag(ReplySoFar) \in MoodTags \cup {TimeCmd, WeatherCmd}
             \/ StartsWith(FirstTag(ReplySoFar), TextPrefix)
          /\ \A k \in 1..Len(CommandsBy({"stream", "final"})) :
                CommandsBy({"stream", "final"})[k]
                    = IF FirstTag(ReplySoFar) = TimeCmd THEN TimeText
                      ELSE IF FirstTag(ReplySoFar) = WeatherCmd THEN WeatherText
                      ELSE FirstTag(ReplySoFar)
    /\ (ChatSucceeded /\ HasDirective(ReplySoFar)) =>
          /\ chatResult = WithoutFirst(ReplySoFar, FirstDirective(ReplySoFar))
          /\ (\/ FirstTag(ReplySoFar) \in MoodTags \cup {TimeCmd, WeatherCmd}
              \/ StartsWith(FirstTag(ReplySoFar), TextPrefix))
                => CommandsBy({"stream", "final"}) # <<>>

C22_Witness ==
    /\ ChatSucceeded
    /\ ~args.stream
    /\ ReplySoFar = Concat(<<Marker, WeatherCmd, Close>>)
    /\ CommandsBy({"stream", "final"}) = <<WeatherText>>
    /\ chatResult = <<>>

-----------------------------------------------------------------------------
(* The end of the stream *)

\* C23: the step that reads "data: [DONE]" (or the end of the response) adds
\* nothing to the reply and sends nothing; from then on the reply is fixed,
\* the frames behind the sentinel stay unread, and the assistant entry is the
\* reply as it stood at the sentinel; a step that reads an empty line or a
\* line without "data:" changes neither reply nor buffer and sends nothing.
C23_StopsAtDone ==
    [][/\ (chatPc = "iter" /\ chatPc' = "finish") =>
             UNCHANGED <<full_response, buffer, display_cmd, device, frames,
                         conversation_history>>
       /\ chatPc \in {"finish", "returned"} =>
             /\ UNCHANGED <<full_response, frames>>
             /\ chatPc' \in {"finish", "returned"}
       /\ (chatPc = "finish" /\ chatPc' = "returned") =>
             conversation_history'
                 = Append(conversation_history, AssistantEntry(full_response))
       /\ (chatPc = "iter" /\ chatPc' = "iter" /\ noise' # noise) =>
             UNCHANGED <<full_response, buffer, display_cmd, device, frames,
                         conversation_history>>]_vars

C23_Witness ==
    /\ args.stream
    /\ chatPc = "returned"
    /\ status = "200"
    /\ frames = <<Concat(<<Marker, Happy, Close>>)>>
    /\ full_response = HiBang
    /\ conversation_history[Len(conversation_history)] = AssistantEntry(HiBang)
    /\ chatResult = HiBang
    /\ device = Sent(<<Neutral>>, "thinking")

-----------------------------------------------------------------------------
(* The transcript entries of one chat call *)

\* C24 (as claimed): a chat call that has returned has appended the user
\* entry and nothing else when it returned the apology, and the user entry
\* followed by one assistant entry when it returned a reply.
C24_AssistantEntryIffSuccess ==
    chatPc = "returned" =>
        /\ Len(conversation_history) = IF chatResult = Apology THEN 2 ELSE 3
        /\ conversation_history[2] = UserEntry(user_input)
        /\ Len(conversation_history) = 3 => conversation_history[3].role = "assistant"

-----------------------------------------------------------------------------
(* The smile detector's display client *)

\* C26: a call of the smile detector's send_to_esp32 made less than
\* esp_update_interval after last_esp_update (which starts at the program's
\* start) makes no request; last_esp_update changes only in a call that made
\* its request without an exception, and then to the time of the call: a
\* suppressed call and a failed call leave it as it was.
C26_SmileThrottle ==
    [][(espCall'.n = espCall.n + 1 /\ espCall'.client = "smile") =>
          /\ espCall.now - espCall.last_esp_update < esp_update_interval =>
                /\ espCall'.requests = <<>>
                /\ device' = device
                /\ espCall'.last_esp_update = espCall.last_esp_update
          /\ IsException(espCall'.outcome) =>
                espCall'.last_esp_update = espCall.last_esp_update
          /\ espCall'.last_esp_update # espCall.last_esp_update =>
                /\ espCall'.last_esp_update = espCall.now
                /\ espCall'.requests = <<espCall'.command>>
                /\ espCall.now - espCall.last_esp_update >= esp_update_interval]_vars

C26_Witness ==
    /\ espCall.pc = "returned"
    /\ espCall.client = "smile"
    /\ espCall.n = 2
    /\ espCall.throttled
    /\ espCall.requests = <<>>
    /\ espCall.last_esp_update = esp_update_interval
    /\ Len(device) = 1

-----------------------------------------------------------------------------
(* The smile detector: process_frame_loop of src/vision/smile_detector.py.   *)
(* Confidences are in hundredths, times in tenths of a second.               *)

HAPPY_THRESHOLD == 2
NEUTRAL_THRESHOLD == 3
SMILE_CONFIDENCE_THRESHOLD == 35
HISTORY_SIZE == 5
DETECTION_INTERVAL == 1

\* one frame takes the sleep of DETECTION_INTERVAL and up to this much in all
MaxFrameTime == 2
\* the clock of the smile detector runs up to this many tenths of a second
MaxSmileTime == 9

\* smile_confidence of a frame: no smile, a faint one, a clear one
Confidences == {0, 30, 100}
FrameTimes == DETECTION_INTERVAL..MaxFrameTime

RECURSIVE Sum(_)
Sum(q) == IF q = <<>> THEN 0 ELSE Head(q) + Sum(Tail(q))

\* the last n elements of q, all of q when it is shorter
LastOf(q, n) == IF Len(q) <= n THEN q ELSE SubSeq(q, Len(q) - n + 1, Len(q))

ProcessFrameKeepsCount(st, smile_confidence, outcome, dt) ==
    LET emotion_history == LastOf(Append(st.emotion_history, smile_confidence),
                                  HISTORY_SIZE)
        is_above == Sum(emotion_history) >= SMILE_CONFIDENCE_THRESHOLD * Len(emotion_history)
        consecutive_happy == IF is_above THEN st.consecutive_happy + 1
                             ELSE st.consecutive_happy
        consecutive_neutral == IF is_above THEN 0 ELSE st.consecutive_neutral + 1
        to_happy == consecutive_happy >= HAPPY_THRESHOLD /\ st.current_state # Happy
        to_neutral == ~to_happy /\ consecutive_neutral >= NEUTRAL_THRESHOLD
                         /\ st.current_state # Neutral
        current_state == IF to_happy THEN Happy ELSE IF to_neutral THEN Neutral
                         ELSE st.current_state
        r == smile_send_to_esp32(current_state, outcome, st.now, st.last_esp_update)
        sends == to_happy \/ to_neutral
    IN  [pc |-> "running",
         current_state |-> current_state,
         prev_state |-> st.current_state,
         consecutive_happy |-> consecutive_happy,
         consecutive_neutral |-> consecutive_neutral,
         emotion_history |-> emotion_history,
         above |-> LastOf(Append(st.above, is_above), NEUTRAL_THRESHOLD),
         now |-> st.now + dt,
         last_esp_update |-> IF sends THEN r.last_esp_update ELSE st.last_esp_update,
         shown |-> IF sends /\ r.requests # <<>> /\ ~IsException(outcome)
                   THEN current_state ELSE st.shown,
         changed |-> st.changed \/ sends,
         failed |-> st.failed \/ (sends /\ r.requests # <<>> /\ IsException(outcome))]

\* One iteration of the frame loop (lines 95-279) from the smile confidence of
\* the frame on: smoothing (lines 229-234), the counters (lines 236-242), the
\* state machine and its push to the device (lines 244-253), the sleep.
process_frame(st, smile_confidence, outcome, dt) ==
    LET emotion_history == LastOf(Append(st.emotion_history, smile_confidence),
                                  HISTORY_SIZE)
        is_above == Sum(emotion_history) >= SMILE_CONFIDENCE_THRESHOLD * Len(emotion_history)
        consecutive_happy == IF is_above THEN st.consecutive_happy + 1 ELSE 0
        consecutive_neutral == IF is_above THEN 0 ELSE st.consecutive_neutral + 1
        to_happy == consecutive_happy >= HAPPY_THRESHOLD /\ st.current_state # Happy
        to_neutral == ~to_happy /\ consecutive_neutral >= NEUTRAL_THRESHOLD
                         /\ st.current_state # Neutral
        current_state == IF to_happy THEN Happy ELSE IF to_neutral THEN Neutral
                         ELSE st.current_state
        r == smile_send_to_esp32(current_state, outcome, st.now, st.last_esp_update)
        sends == to_happy \/ to_neutral
    IN  [pc |-> "running",
         current_state |-> current_state,
         prev_state |-> st.current_state,
         consecutive_happy |-> consecutive_happy,
         consecutive_neutral |-> consecutive_neutral,
         emotion_history |-> emotion_history,
         above |-> LastOf(Append(st.above, is_above), NEUTRAL_THRESHOLD),
         now |-> st.now + dt,
         last_esp_update |-> IF sends THEN r.last_esp_update ELSE st.last_esp_update,
         shown |-> IF sends /\ r.requests # <<>> /\ ~IsException(outcome)
                   THEN current_state ELSE st.shown,
         changed |-> st.changed \/ sends,
         failed |-> st.failed \/ (sends /\ r.requests # <<>> /\ IsException(outcome))]

SmileFrame ==
    /\ UNCHANGED <<args, continue_listening, audio_queue, capPc, captured, mainPc,
                   audio, user_input, ai_response, events, transcribed, gateIn, gateOut>>
    /\ UNCHANGED <<conversation_history, frames, full_response, buffer, display_cmd,
                   noise, status, chatPc, chatResult, device, espCall, ttsCall,
                   late_puts>>

\* the loop reads a frame and processes it
ProcessFrame ==
    /\ smile.pc \in {"ready", "running"}
    /\ \E smile_confidence \in Confidences, outcome \in {"200", "timeout"},
          dt \in FrameTimes :
         /\ smile.now + dt <= MaxSmileTime
         /\ smile' = process_frame(smile, smile_confidence, outcome, dt)
    /\ SmileFrame

\* lines 94-98: cap.read() fails, the loop ends
ProcessFrameEnds ==
    /\ smile.pc \in {"ready", "running"}
    /\ smile' = [smile EXCEPT !.pc = "ended"]
    /\ SmileFrame

SmileInit ==
    /\ args \in {a \in Args : a.mode = "text" /\ a.always_listen /\ ~a.mute
                              /\ ~a.use_openai_speech /\ ~a.stream}
    /\ continue_listening = TRUE
    /\ audio_queue = <<>>
    /\ capPc = "idle"
    /\ captured = 0
    /\ mainPc = "welcome"
    /\ audio = 0
    /\ user_input = None
    /\ ai_response = None
    /\ conversation_history = <<SystemEntry>>
    /\ device = <<>>
    /\ events = <<>>
    /\ transcribed = <<>>
    /\ frames = <<>>
    /\ full_response = <<>>
    /\ buffer = <<>>
    /\ display_cmd = None
    /\ chatPc = "idle"
    /\ chatResult = None
    /\ gateIn = None
    /\ gateOut = [kind |-> "none", text |-> None]
    /\ noise = 0
    /\ status = "none"
    /\ espCall = [pc |-> "none"]
    /\ ttsCall = [pc |-> "none"]
    /\ smile = [pc |-> "ready", current_state |-> Neutral, prev_state |-> Neutral,
                consecutive_happy |-> 0, consecutive_neutral |-> 0,
                emotion_history |-> <<>>, above |-> <<>>, now |-> 0,
                last_esp_update |-> 0, shown |-> None, changed |-> FALSE,
                failed |-> FALSE]
    /\ late_puts = 0

SmileNext ==
    \/ ProcessFrame
    \/ ProcessFrameEnds

SmileSpec == SmileInit /\ [][SmileNext]_vars

\* C25: a frame that changes current_state to happy is the last of at least
\* HAPPY_THRESHOLD consecutive frames whose smoothed confidence was at or
\* above the threshold, and a frame that changes it to neutral is the last of
\* at least NEUTRAL_THRESHOLD consecutive frames below it; the counters are
\* the lengths of the current runs.
C25_StateChangeThresholds ==
    smile.pc = "running" =>
        /\ (smile.current_state # smile.prev_state /\ smile.current_state = Happy) =>
              /\ Len(smile.above) >= HAPPY_THRESHOLD
              /\ \A k \in 0..(HAPPY_THRESHOLD - 1) : smile.above[Len(smile.above) - k]
        /\ (smile.current_state # smile.prev_state /\ smile.current_state = Neutral) =>
              /\ Len(smile.above) >= NEUTRAL_THRESHOLD
              /\ \A k \in 0..(NEUTRAL_THRESHOLD - 1) : ~smile.above[Len(smile.above) - k]
        /\ smile.current_state \in {Happy, Neutral}

C25_Witness ==
    /\ smile.pc = "running"
    /\ smile.prev_state = Happy
    /\ smile.current_state = Neutral
    /\ smile.above = <<FALSE, FALSE, FALSE>>

\* C27 (as claimed): once current_state has changed, and as long as no
\* request failed, the state the device was last sent is current_state.
C27_DeviceFollowsState ==
    (smile.pc = "running" /\ smile.changed /\ ~smile.failed) =>
        smile.shown = smile.current_state

-----------------------------------------------------------------------------
(* The fragments of a streamed reply *)

\* chat_with_ai_stream on a reply that arrives as one fragment: the commands
\* it sends from the loop and from the final processing, the text it returns,
\* the entries it appends after the user entry
OneFragmentRun(reply) ==
    LET r == StreamContent(<<>>, <<>>, None, reply)
        p == process_display_commands(reply)
    IN  IF reply # <<>> /\ ~Printable(reply)
        THEN [commands |-> r.sent, result |-> Apology, entries |-> <<>>]
        ELSE [commands |-> (IF reply = <<>> THEN <<>> ELSE r.sent) \o p.sent,
              result |-> p.text,
              entries |-> <<AssistantEntry(reply)>>]

\* the reply text of a streaming call that has returned: what the loop read up
\* to the sentinel or, when the handling of a fragment raised, what it read
\* and the fragments it left unread
StreamReply ==
    IF Len(conversation_history) = 3 THEN full_response
    ELSE full_response \o Concat(frames)

\* C28 (as claimed): a streaming call that got status 200 and met no unusable
\* line has sent the commands, returned the text and appended the entries of
\* the call that receives the same reply text as a single fragment.
C28_FragmentationIndependent ==
    (args.stream /\ chatPc = "returned" /\ status = "200" /\ noise = MaxNoise) =>
        /\ CommandsBy({"stream", "final"}) = OneFragmentRun(StreamReply).commands
        /\ chatResult = OneFragmentRun(StreamReply).result
        /\ SubSeq(conversation_history, 3, Len(conversation_history))
              = OneFragmentRun(StreamReply).entries

-----------------------------------------------------------------------------
(* The two copies of the activation gate *)

\* C29 (as claimed): on the transcribed text of every utterance, the empty
\* text included, and under either setting of always_listen, the gate of
\* process_audio and the gate of process_audio_chunk_with_openai decide alike
\* among command, ignored and acknowledged, and return the same command.
C29_GateCopiesAgree ==
    gateIn # None =>
        /\ Gate(gateIn, args.always_listen).kind
              = GateOpenAI(gateIn, args.always_listen).kind
        /\ Gate(gateIn, args.always_listen).kind = "command" =>
              Gate(gateIn, args.always_listen).text
                  = GateOpenAI(gateIn, args.always_listen).text

\* C30 (as claimed): in realtime mode the capture thread is never inside its
\* microphone capture (calibration or listen of continuous_listen_worker)
\* while the main thread is inside the follow-up capture of listen_for_speech.
C30_MicrophoneExclusive ==
    ~(capPc \in {"calibrate", "listen"} /\ mainPc = "followup")

-----------------------------------------------------------------------------
(* The capture thread after the stop flag *)

\* C31: after continue_listening has been cleared the capture thread enqueues
\* at most one chunk, and that chunk comes from the capture that was under
\* way when the flag was cleared: once it is enqueued the thread is at its
\* loop test or past it, never in a new capture; the flag stays cleared.
C31_AtMostOneLatePut ==
    /\ late_puts <= 1
    /\ continue_listening => late_puts = 0
    /\ (~continue_listening /\ capPc \in {"listen", "put"}) => late_puts = 0

C31_Witness ==
    /\ ~continue_listening
    /\ late_puts = 1
    /\ capPc = "done"
    /\ mainPc = "crashed"
    /\ audio_queue = <<1>>

-----------------------------------------------------------------------------
(* The shape of the transcript *)

\* the positions of conversation_history that hold an entry of the role
EntriesOf(role) ==
    {k \in 1..Len(conversation_history) : conversation_history[k].role = role}

\* C32: in every reachable state each assistant entry of conversation_history
\* comes directly after a user entry, so two assistant entries are never
\* adjacent, and there are at most as many assistant entries as user entries;
\* the system prompt stays the only system entry, in first place.
C32_AssistantFollowsUser ==
    /\ \A k \in EntriesOf("assistant") :
          /\ k > 1
          /\ conversation_history[k - 1].role = "user"
    /\ \A k \in 1..(Len(conversation_history) - 1) :
          ~(/\ conversation_history[k].role = "assistant"
            /\ conversation_history[k + 1].role = "assistant")
    /\ Cardinality(EntriesOf("assistant")) <= Cardinality(EntriesOf("user"))
    /\ EntriesOf("system") = {1}

\* a failed call left its user entry, the next call succeeded: two user
\* entries are adjacent, the assistant entry follows the second
C32_Witness ==
    /\ Len(conversation_history) = 4
    /\ conversation_history[2].role = "user"
    /\ conversation_history[3].role = "user"
    /\ conversation_history[4].role = "assistant"
    /\ chatPc = "returned"
    /\ chatResult # Apology

====
